---- MODULE Spec2Model ----
(***************************************************************************)
(* fusion_idea_addin: the authenticated command channel.                   *)
(*                                                                         *)
(* Two threads share AddIn._trusted_keys:                                  *)
(*   - the http server thread, which runs                                  *)
(*     RunScriptHTTPRequestHandler.do_POST one request at a time;          *)
(*   - Fusion's main thread, which runs the custom event handlers          *)
(*     (VerifyRunScriptEventHandler, RunScriptEventHandler,                *)
(*     ErrorDialogEventHandler) one event at a time.                       *)
(* fireCustomEvent queues an event for the main thread.  A thread switch   *)
(* can happen between any two statements of a handler, so every access to  *)
(* the shared dictionary and every fireCustomEvent is a step of its own.   *)
(***************************************************************************)
EXTENDS Integers, Sequences, FiniteSets, TLC

(***************************************************************************)
(* Bounds of the model.                                                    *)
(***************************************************************************)
\* number of http requests the server handles in one behaviour
MaxRequests == 3
\* integer nonces range over 0..MaxNonce
MaxNonce == 1
\* number of run events RunScriptEventHandler handles in one behaviour
MaxItems == 2
\* number of lines of an ssdp datagram
MaxLines == 3

(***************************************************************************)
(* Program constants.                                                      *)
(***************************************************************************)
REQUIRE_CONFIRMATION == TRUE

\* logging levels: logger.error and logger.fatal make records of these
\* levels; the dialog handler is set to logging.FATAL (line 130)
ERROR == 40
FATAL == 50

\* Python's None, as returned by dict.get for a missing key (or stored by a
\* message whose nonce is JSON null).  Integer nonces are >= 0 in the model.
None == -1

(***************************************************************************)
(* Strings are sequences of one-character strings, so that int(),          *)
(* concatenation, bytes.hex and str.upper are computed, not assumed.       *)
(***************************************************************************)
DigitVal == [c \in {"0", "3", "7"} |->
               CASE c = "0" -> 0 [] c = "3" -> 3 [] c = "7" -> 7]

RECURSIVE int(_)
\* Python int(str) on a string of decimal digits: leading zeros are dropped
int(s) == IF s = <<>> THEN 0
          ELSE 10 * int(SubSeq(s, 1, Len(s) - 1)) + DigitVal[s[Len(s)]]

\* the pubkey_modulus strings a caller may send; "7" and "07" name the same
\* RSA modulus but are different strings, so different fingerprints
Moduli == {<<"7">>, <<"0", "7">>}
Exponents == {<<"3">>}

\* rsa.PublicKey(n, e)
PublicKey(n, e) == [n |-> n, e |-> e]

\* the key pairs that exist: a signature is made with the private half of
\* one of them.  The second is a key no envelope names: its signatures
\* verify against no embedded key.
KeyPairs == {PublicKey(7, 3), PublicKey(9, 3)}

(***************************************************************************)
(* The inner message (request_json["message"]), by what                    *)
(* json.loads(message)["nonce"] yields:                                    *)
(*   form "int"     : an object whose nonce is the integer `nonce`         *)
(*   form "null"    : an object whose nonce is JSON null (Python None)     *)
(*   form "invalid" : json.loads raises, or there is no "nonce" key        *)
(***************************************************************************)
Nonces == 0..MaxNonce
Messages == [form : {"int"}, nonce : Nonces]
              \cup {[form |-> "null", nonce |-> None],
                    [form |-> "invalid", nonce |-> None]}

\* a signature made over message m with the private key of kp
Signatures == [signer : KeyPairs, msg : Messages]

\* the request bodies that parse and carry all four fields
Envelopes == [pubkey_modulus : Moduli, pubkey_exponent : Exponents,
              message : Messages, signature : Signatures]

\* a body for which lines 394-398 raise (not JSON, a field missing or not a
\* decimal string)
MalformedBody == [malformed |-> TRUE]

\* rsa.verify(message, signature, pubkey): raises unless the signature was
\* made over exactly this message with the private half of pubkey
rsa_verify(message, signature, pubkey) ==
    /\ signature.signer = pubkey
    /\ signature.msg = message

\* pubkey_string = request_json["pubkey_modulus"] + ":" + request_json["pubkey_exponent"]
pubkey_string(request_json) ==
    request_json.pubkey_modulus \o <<":">> \o request_json.pubkey_exponent

Fingerprints == {m \o <<":">> \o x : m \in Moduli, x \in Exponents}

\* a verification that checks the message but not whose key signed it
SignatureValid_any_signer(request_json) ==
    request_json.signature.msg = request_json.message

\* a verification that checks the signer but not the message signed
SignatureValid_any_message(request_json) ==
    request_json.signature.signer = PublicKey(int(request_json.pubkey_modulus),
                                              int(request_json.pubkey_exponent))

\* lines 397-399: the signature verifies against the key embedded in the envelope
SignatureValid(request_json) ==
    rsa_verify(request_json.message, request_json.signature,
               PublicKey(int(request_json.pubkey_modulus),
                         int(request_json.pubkey_exponent)))

(***************************************************************************)
(* The digest shown to the operator: bytes.hex(sha1(pubkey_string)).       *)
(* SHA-1 is idealised as collision free: every character of the input is   *)
(* replaced by a lowercase hex digit of its own.                           *)
(***************************************************************************)
HexOf == [c \in {"0", "3", "7", ":"} |->
            CASE c = "0" -> "a" [] c = "3" -> "1" [] c = "7" -> "b" [] c = ":" -> "e"]

expected_hash(s) == [i \in 1..Len(s) |-> HexOf[s[i]]]

UpperChar(c) == CASE c = "a" -> "A" [] c = "b" -> "B" [] c = "e" -> "E"
                  [] OTHER -> c

\* str.upper()
upper(s) == [i \in 1..Len(s) |-> UpperChar(s[i])]

\* what the operator may type into the input box: the digest of any
\* fingerprint as the IDE prints it (lower case) or in mixed case, or nothing
MixedCase(s) == [i \in 1..Len(s) |-> IF i % 2 = 1 THEN UpperChar(s[i]) ELSE s[i]]
TypedValues == {expected_hash(f) : f \in Fingerprints}
                 \cup {MixedCase(expected_hash(f)) : f \in Fingerprints}
                 \cup {<<>>}

(***************************************************************************)
(* State.                                                                  *)
(***************************************************************************)
VARIABLES
    trusted_keys,   \* AddIn._trusted_keys: fingerprint -> nonce, None if absent
    run_q,          \* RUN_SCRIPT_EVENT events fired and not yet handled
    verify_q,       \* VERIFY_RUN_SCRIPT_EVENT events fired and not yet handled
    error_q,        \* ERROR_DIALOG_EVENT events fired and not yet handled
    h_pc,           \* position of the http thread inside do_POST
    h_req,          \* do_POST: request_json while a verified request is handled
    h_nonce,        \* do_POST: the local `nonce` read at line 401
    h_resp,         \* the response sent last: status, and for 500 the exception
                    \* whose traceback is the body (line 426)
    m_pc,           \* position of the main thread
    m_req,          \* VerifyRunScriptEventHandler.notify: request_json
    nreq,           \* requests received so far
    h_enq,          \* history: fireCustomEvent calls do_POST made for the
                    \* request received last
    last_run,       \* history: per fingerprint, the nonce of the RUN_SCRIPT_EVENT
                    \* fired last for it, None if there was none
    r_pc,           \* position inside RunScriptEventHandler.notify
    r_args,         \* RunScriptEventHandler.notify: the payload being handled
    r_detach,       \* RunScriptEventHandler.notify: the local `detach`
    r_exc,          \* RunScriptEventHandler.notify: the exception propagating
    sys_path,       \* sys.path
    r_steps,        \* history: what the handler did for the payload, in order
    r_items,        \* run events handled so far
    sys_path_before, \* sys.path when the run event handled last was delivered
    a_http,         \* AddIn._http_server: "server" or "None"
    a_ssdp,         \* AddIn._ssdp_server: "server" or "None"
    http_srv,       \* the HTTPServer object made at line 158
    ssdp_srv,       \* the SSDPServer object made at line 179
    t_http,         \* position of the http server thread (run_http_server)
    t_ssdp,         \* position of the ssdp server thread (run_ssdp_server)
    s_pc,           \* position of the main thread inside AddIn.stop
    d_query,        \* the datagram a client sends to the multicast group
    d_outcome,      \* what SSDPRequestHandler.handle did with the datagram
                    \* it handled last
    d_replies       \* the replies it sent for that datagram

\* the variables of the command channel other than the error dialog queue
channel_vars == <<trusted_keys, run_q, verify_q, h_pc, h_req, h_nonce, h_resp,
                  m_pc, m_req, nreq, h_enq, last_run>>

\* the variables of RunScriptEventHandler.notify
handler_vars == <<r_pc, r_args, r_detach, r_exc, sys_path, r_steps, r_items,
                  sys_path_before>>

\* the variables of the two servers' life cycle and of the ssdp handler
discovery_vars == <<a_http, a_ssdp, http_srv, ssdp_srv, t_http, t_ssdp, s_pc,
                    d_query, d_outcome, d_replies>>

vars == <<trusted_keys, run_q, verify_q, error_q, h_pc, h_req, h_nonce, h_resp,
          m_pc, m_req, nreq, h_enq, last_run, handler_vars, discovery_vars>>

NoRequest == [malformed |-> FALSE]

\* lines 420-422 and 424-426
NoResponse == [status |-> 0, error |-> "none"]
Done == [status |-> 200, error |-> "none"]
Failure(exception) == [status |-> 500, error |-> exception]

\* an event in the RUN_SCRIPT_EVENT queue: additionalInfo is the message;
\* env is history, the envelope the message was taken from
RunEvent(request_json) == [additionalInfo |-> request_json.message, env |-> request_json]

\* history kept with fireCustomEvent(RUN_SCRIPT_EVENT, ...)
RecordRun(request_json) ==
    [last_run EXCEPT ![pubkey_string(request_json)] = request_json.message.nonce]

\* a dialog handler left at the default level, which handles every record
Emits_every_record(levelno) == TRUE

\* logging.Handler.handle for the dialog handler: a record is emitted when
\* its level is at least the handler's (FATAL, line 130)
Emits(levelno) == levelno >= FATAL

\* logger.error / logger.fatal: FusionErrorDialogLoggingHandler.emit fires
\* ERROR_DIALOG_EVENT for the records the handler emits
log(queue, levelno, record) ==
    IF Emits(levelno) THEN Append(queue, record) ELSE queue

\* a lookup that yields 0 instead of None for a key never seen
get_trusted_key_nonce_default_zero(key) ==
    IF trusted_keys[key] = None THEN 0 ELSE trusted_keys[key]

\* AddIn.get_trusted_key_nonce
get_trusted_key_nonce(key) == trusted_keys[key]

\* AddIn.set_trusted_key_nonce
set_trusted_key_nonce(key, nonce) == [trusted_keys EXCEPT ![key] = nonce]

(***************************************************************************)
(* The payload of a run event (args.additionalInfo), by what lines 270-273 *)
(* and 287 read from it.  parses: json.loads does not raise.  script:      *)
(* args.get("script"), "<absent>" for None.  debug: args["debug"], None    *)
(* when the key is missing.  pydevd_path: args["pydevd_path"], "<absent>"  *)
(* when the key is missing, "<number>" when it is not a string.            *)
(* debug_port: args["debug_port"], None when the key is missing.           *)
(***************************************************************************)
Payloads ==
    {a \in [parses : BOOLEAN,
            script : {"<absent>", "", "dir/script.py"},
            debug : {None, 0, 1},
            pydevd_path : {"<absent>", "<number>", "pydevd"},
            debug_port : {None, 7}] :
        a.parses \/ (a.script = "<absent>" /\ a.debug = None
                      /\ a.pydevd_path = "<absent>" /\ a.debug_port = None)}

NoPayload == [parses |-> FALSE, script |-> "<absent>", debug |-> None,
              pydevd_path |-> "<absent>", debug_port |-> None]

\* sys.path when the add-in is loaded
InitialSysPath == <<"stdlib", "site-packages">>

\* AddIn.__init__ and AddIn.start: empty dictionary, no event pending
(***************************************************************************)
(* The ssdp datagram, as the lines that b"\r\n" separates, and the two      *)
(* socketserver objects.                                                    *)
(***************************************************************************)

RequestLine(text) == [kind |-> "request", name |-> "", value |-> text]
HeaderLine(name, value) == [kind |-> "header", name |-> name, value |-> value]
BlankLine == [kind |-> "blank", name |-> "", value |-> ""]

\* line 446: the request line the handler compares with
MSearch == RequestLine("M-SEARCH * HTTP/1.1")

\* the lines a datagram is made of here: the expected request line and
\* another one, an empty line, and the MAN and ST headers with the value of
\* lines 447-448 and with another value
Lines ==
    { MSearch, RequestLine("NOTIFY * HTTP/1.1"), BlankLine,
      HeaderLine("MAN", "\"ssdp:discover\""), HeaderLine("MAN", "\"ssdp:other\""),
      HeaderLine("ST", "fusion_idea:debug"), HeaderLine("ST", "upnp:rootdevice") }

\* self.request[0] of line 433: what one recvfrom of the multicast socket
\* returns, any datagram of at most MaxLines lines
Datagrams == UNION { [1..n -> Lines] : n \in 0..MaxLines }

\* the peers that send datagrams to the multicast group (self.client_address)
Clients == {"10.0.0.2:50000", "10.0.0.3:50001"}

\* line 158: HTTPServer(("localhost", 0), ...) binds a port the system picks
Ports == {49152, 49153}

\* line 470: the port SSDPServer itself is bound to
SSDP_PORT == 1900

\* line 453: os.getpid()
getpid == 4711

\* a socketserver object: loop is "new" until serve_forever runs, "serving"
\* inside its loop and "done" once it has returned; shutdown_request is
\* BaseServer.__shutdown_request; closed is true after server_close();
\* port is server_port of the HTTPServer and debug_port of the SSDPServer
Server(port) ==
    [loop |-> "new", shutdown_request |-> FALSE, closed |-> FALSE, port |-> port]

\* no SSDPServer has been constructed
NoServer ==
    [loop |-> "absent", shutdown_request |-> FALSE, closed |-> FALSE, port |-> None]

\* lines 158-164: AddIn.start has made the HTTPServer on port and started the
\* two threads, neither of which has run yet; stop has not been called
start(port) ==
    /\ a_http = "server"
    /\ a_ssdp = "None"
    /\ http_srv = Server(port)
    /\ ssdp_srv = NoServer
    /\ t_http = "start"
    /\ t_ssdp = "start"
    /\ s_pc = "not_called"
    /\ d_outcome = "none"
    /\ d_replies = <<>>

\* the state of the handlers and queues after AddIn.start
InitHandlers ==
    /\ trusted_keys = [f \in Fingerprints |-> None]
    /\ run_q = <<>>
    /\ verify_q = <<>>
    /\ error_q = <<>>
    /\ h_pc = "idle"
    /\ h_req = NoRequest
    /\ h_nonce = None
    /\ h_resp = NoResponse
    /\ m_pc = "idle"
    /\ m_req = NoRequest
    /\ nreq = 0
    /\ h_enq = 0
    /\ last_run = [f \in Fingerprints |-> None]
    /\ r_pc = "idle"
    /\ r_args = NoPayload
    /\ r_detach = FALSE
    /\ r_exc = "none"
    /\ sys_path = InitialSysPath
    /\ sys_path_before = InitialSysPath
    /\ r_steps = <<>>
    /\ r_items = 0

Init ==
    /\ InitHandlers
    /\ start(49152)
    /\ d_query = <<>>

\* the same state, with any port for the HTTPServer and any datagram on its
\* way from a client
DiscoveryInit ==
    /\ InitHandlers
    /\ \E port \in Ports : start(port)
    /\ d_query \in Datagrams

(***************************************************************************)
(* The http thread: RunScriptHTTPRequestHandler.do_POST.                   *)
(* HTTPServer handles one request at a time, so there is one position.     *)
(***************************************************************************)

\* lines 388-399 and, when they raise, 423-427: read the body, parse it,
\* rebuild the key and verify the signature; a failure is answered 500 and
\* logged with logger.error
do_POST_verify(body) ==
    /\ h_pc = "idle"
    /\ nreq < MaxRequests
    /\ nreq' = nreq + 1
    /\ h_enq' = 0
    /\ h_nonce' = None
    /\ IF body = MalformedBody
       THEN /\ h_resp' = Failure("MalformedRequest")
            /\ error_q' = log(error_q, ERROR, "http")
            /\ h_pc' = "idle"
            /\ h_req' = NoRequest
       ELSE IF REQUIRE_CONFIRMATION /\ ~SignatureValid(body)
       THEN /\ h_resp' = Failure("VerificationError")
            /\ error_q' = log(error_q, ERROR, "http")
            /\ h_pc' = "idle"
            /\ h_req' = NoRequest
       ELSE /\ h_resp' = NoResponse
            /\ error_q' = error_q
            /\ h_pc' = "lookup"
            /\ h_req' = body
    /\ UNCHANGED <<trusted_keys, run_q, verify_q, m_pc, m_req, last_run>>
    /\ UNCHANGED <<handler_vars, discovery_vars>>

\* a first contact whose response is left for after the event was handled
FirstContactResponse_deferred == NoResponse

\* lines 404-407: send_response(200), end_headers, write b"done", finish()
FirstContactResponse == Done

\* lines 401-407: read the dictionary; on first contact answer 200 "done"
\* and finish the response before anything is fired
do_POST_lookup ==
    /\ h_pc = "lookup"
    /\ h_nonce' = get_trusted_key_nonce(pubkey_string(h_req))
    /\ IF h_nonce' = None
       THEN /\ h_resp' = FirstContactResponse
            /\ h_pc' = "fire_verify"
       ELSE /\ h_resp' = h_resp
            /\ h_pc' = "check"
    /\ UNCHANGED <<trusted_keys, run_q, verify_q, error_q, h_req, m_pc, m_req,
                   nreq, h_enq, last_run>>
    /\ UNCHANGED <<handler_vars, discovery_vars>>

\* a first contact without the return of line 409: after firing the verify
\* event do_POST goes on to the nonce check
do_POST_fire_verify_no_return ==
    /\ h_pc = "fire_verify"
    /\ verify_q' = Append(verify_q, h_req)
    /\ h_enq' = h_enq + 1
    /\ h_pc' = "check"
    /\ UNCHANGED <<trusted_keys, run_q, error_q, h_req, h_nonce, h_resp, m_pc, m_req,
                   nreq, last_run>>
    /\ UNCHANGED <<handler_vars, discovery_vars>>

\* lines 408-409: fire VERIFY_RUN_SCRIPT_EVENT with json.dumps(request_json)
do_POST_fire_verify ==
    /\ h_pc = "fire_verify"
    /\ verify_q' = Append(verify_q, h_req)
    /\ h_enq' = h_enq + 1
    /\ h_pc' = "idle"
    /\ h_req' = NoRequest
    /\ h_nonce' = None
    /\ UNCHANGED <<trusted_keys, run_q, error_q, h_resp, m_pc, m_req, nreq, last_run>>
    /\ UNCHANGED <<handler_vars, discovery_vars>>

\* a comparison that rejects only smaller nonces
NonceAccepted_equal_passes(message, nonce) ==
    /\ message.form = "int"
    /\ ~(message.nonce < nonce)

\* line 411 and 413: json.loads(message)["nonce"] <= nonce does not raise
\* and is false.  A message that does not parse or has no nonce raises at
\* 411/413; a null nonce raises TypeError at 413 (None <= int).
NonceAccepted(message, nonce) ==
    /\ message.form = "int"
    /\ ~(message.nonce <= nonce)

\* lines 411-416 and, when they raise, 423-427: compare with the nonce read
\* at line 401 and store the new one; a failure is answered 500 and logged
\* with logger.error
do_POST_check ==
    /\ h_pc = "check"
    /\ IF NonceAccepted(h_req.message, h_nonce)
       THEN /\ trusted_keys' = set_trusted_key_nonce(pubkey_string(h_req),
                                                     h_req.message.nonce)
            /\ h_pc' = "fire_run"
            /\ UNCHANGED <<h_resp, h_req, h_nonce, error_q>>
       ELSE /\ trusted_keys' = trusted_keys
            /\ h_pc' = "idle"
            /\ h_resp' = Failure(IF h_req.message.form = "int"
                                 THEN "ValueError: Invalid nonce"
                                 ELSE "MalformedMessage")
            /\ error_q' = log(error_q, ERROR, "http")
            /\ h_req' = NoRequest
            /\ h_nonce' = None
    /\ UNCHANGED <<run_q, verify_q, m_pc, m_req, nreq, h_enq, last_run>>
    /\ UNCHANGED <<handler_vars, discovery_vars>>

\* lines 418-422: fire RUN_SCRIPT_EVENT with the message, then answer 200
do_POST_fire_run ==
    /\ h_pc = "fire_run"
    /\ run_q' = Append(run_q, RunEvent(h_req))
    /\ last_run' = RecordRun(h_req)
    /\ h_enq' = h_enq + 1
    /\ h_resp' = Done
    /\ h_pc' = "idle"
    /\ h_req' = NoRequest
    /\ h_nonce' = None
    /\ UNCHANGED <<trusted_keys, verify_q, error_q, m_pc, m_req, nreq>>
    /\ UNCHANGED <<handler_vars, discovery_vars>>

(***************************************************************************)
(* The main thread: Fusion delivers one custom event at a time.            *)
(***************************************************************************)

\* a dispatcher that delivers an event while a handler is still running
ConsumerFree_reentrant == TRUE

\* the dispatcher delivers the next event only when no handler is running
ConsumerFree == m_pc = "idle"

\* a handler that takes the event and returns without asking the operator
VerifyRunScript_prompt_drops ==
    /\ ConsumerFree
    /\ verify_q # <<>>
    /\ verify_q' = Tail(verify_q)
    /\ UNCHANGED <<trusted_keys, run_q, error_q, h_pc, h_req, h_nonce, h_resp,
                   m_pc, m_req, nreq, h_enq, last_run>>
    /\ UNCHANGED <<handler_vars, discovery_vars>>

\* VerifyRunScriptEventHandler.notify, lines 334-345: the event is taken,
\* its payload parsed, and the input box opened (it blocks the main thread)
VerifyRunScript_prompt ==
    /\ ConsumerFree
    /\ verify_q # <<>>
    /\ m_req' = Head(verify_q)
    /\ verify_q' = Tail(verify_q)
    /\ m_pc' = "prompt"
    /\ UNCHANGED <<trusted_keys, run_q, error_q, h_pc, h_req, h_nonce, h_resp,
                   nreq, h_enq, last_run>>
    /\ UNCHANGED <<handler_vars, discovery_vars>>

\* a comparison that is case sensitive
HashMatches_case_sensitive(return_value, request_json) ==
    return_value = expected_hash(pubkey_string(request_json))

\* line 357: return_value.upper() == expected_hash.upper()
HashMatches(return_value, request_json) ==
    upper(return_value) = upper(expected_hash(pubkey_string(request_json)))

\* a handler that ignores the cancel button
Confirmed_ignoring_cancel(return_value, cancelled, request_json) ==
    HashMatches(return_value, request_json)

\* lines 347-357: not cancelled, and the typed value matches
Confirmed(return_value, cancelled, request_json) ==
    /\ ~cancelled
    /\ HashMatches(return_value, request_json)

\* lines 347-359 and 361-365: the operator answers the input box
VerifyRunScript_answer(return_value, cancelled) ==
    /\ m_pc = "prompt"
    /\ IF Confirmed(return_value, cancelled, m_req)
       THEN IF m_req.message.form = "invalid"
            THEN \* line 358 or 359 raises: logger.fatal at 364 fires the dialog event
                 /\ error_q' = log(error_q, FATAL, "verify")
                 /\ m_pc' = "idle"
                 /\ m_req' = NoRequest
                 /\ UNCHANGED trusted_keys
            ELSE \* line 359
                 /\ trusted_keys' = set_trusted_key_nonce(pubkey_string(m_req),
                                                          m_req.message.nonce)
                 /\ m_pc' = "fire_run"
                 /\ UNCHANGED <<error_q, m_req>>
       ELSE IF cancelled
       THEN \* line 348
            /\ m_pc' = "idle"
            /\ m_req' = NoRequest
            /\ UNCHANGED <<trusted_keys, error_q>>
       ELSE \* line 362: the message box opens (it blocks the main thread)
            /\ m_pc' = "mismatch_box"
            /\ m_req' = NoRequest
            /\ UNCHANGED <<trusted_keys, error_q>>
    /\ UNCHANGED <<run_q, verify_q, h_pc, h_req, h_nonce, h_resp, nreq, h_enq,
                   last_run>>
    /\ UNCHANGED <<handler_vars, discovery_vars>>

\* line 362: the operator closes the message box and the handler returns
VerifyRunScript_mismatch_closed ==
    /\ m_pc = "mismatch_box"
    /\ m_pc' = "idle"
    /\ UNCHANGED <<trusted_keys, run_q, verify_q, error_q, h_pc, h_req, h_nonce,
                   h_resp, m_req, nreq, h_enq, last_run>>
    /\ UNCHANGED <<handler_vars, discovery_vars>>

\* line 360: fire RUN_SCRIPT_EVENT with request_json["message"]
VerifyRunScript_fire ==
    /\ m_pc = "fire_run"
    /\ run_q' = Append(run_q, RunEvent(m_req))
    /\ last_run' = RecordRun(m_req)
    /\ m_pc' = "idle"
    /\ m_req' = NoRequest
    /\ UNCHANGED <<trusted_keys, verify_q, error_q, h_pc, h_req, h_nonce, h_resp,
                   nreq, h_enq>>
    /\ UNCHANGED <<handler_vars, discovery_vars>>

\* RunScriptEventHandler.notify, lines 268-323: the event is taken and the
\* command run.  What the command does is outside this specification; the
\* handler may call logger.fatal (lines 292, 308, 321), which fires the
\* dialog event.
RunScript_notify(fatal) ==
    /\ ConsumerFree
    /\ run_q # <<>>
    /\ run_q' = Tail(run_q)
    /\ error_q' = IF fatal THEN log(error_q, FATAL, "run") ELSE error_q
    /\ UNCHANGED <<trusted_keys, verify_q, h_pc, h_req, h_nonce, h_resp, m_pc,
                   m_req, nreq, h_enq, last_run>>
    /\ UNCHANGED <<handler_vars, discovery_vars>>

\* ErrorDialogEventHandler.notify, lines 373-374
ErrorDialog_notify ==
    /\ ConsumerFree
    /\ error_q # <<>>
    /\ error_q' = Tail(error_q)
    /\ UNCHANGED <<trusted_keys, run_q, verify_q, h_pc, h_req, h_nonce, h_resp,
                   m_pc, m_req, nreq, h_enq, last_run>>
    /\ UNCHANGED <<handler_vars, discovery_vars>>

(***************************************************************************)
(* RunScriptEventHandler.notify in detail (RunScript_notify above takes    *)
(* the event; these are the statements it then runs).  The handler runs on *)
(* the main thread with no other thread touching sys.path.                 *)
(***************************************************************************)

\* Python truth value of script_path and of debug
Truthy(script_path) == script_path \notin {"<absent>", ""}

\* list.append and del list[-1]
append(path, entry) == Append(path, entry)
del_last(path) == SubSeq(path, 1, Len(path) - 1)

\* a detach decided by debug alone
Detach_whenever_debug(script_path, debug) == debug # 0

\* line 275: detach = script_path and debug
Detach(script_path, debug) == Truthy(script_path) /\ debug # 0

\* `except Exception` (lines 291, 307, 318, 320): SystemExit and
\* KeyboardInterrupt derive from BaseException and are not caught
Caught(exception) == exception \notin {"SystemExit", "KeyboardInterrupt"}

\* what import_module / reload / module.run (lines 303-306) can do: return,
\* raise an ordinary exception, or leave through sys.exit()
ScriptOutcomes == {"ok", "RuntimeError", "SystemExit"}

\* what attach_script.attach and pydevd.stoptrace can do
CallOutcomes == {"ok", "RuntimeError"}

\* lines 269-281: parse the payload, read its fields, decide detach, return
\* early when there is nothing to do, else append the pydevd directory
RunScript_begin(payload) ==
    /\ r_pc \in {"idle", "returned", "raised"}
    /\ r_items < MaxItems
    /\ r_items' = r_items + 1
    /\ sys_path_before' = sys_path
    /\ r_args' = payload
    /\ r_steps' = <<>>
    /\ IF ~payload.parses \/ payload.debug = None \/ payload.pydevd_path = "<absent>"
       THEN \* line 270, 272 or 273 raises
            /\ r_exc' = IF payload.parses THEN "KeyError" ELSE "JSONDecodeError"
            /\ r_pc' = "except"
            /\ r_detach' = FALSE
            /\ sys_path' = sys_path
       ELSE IF ~Truthy(payload.script) /\ payload.debug = 0
       THEN \* lines 277-279
            /\ r_exc' = "none"
            /\ r_pc' = "finally"
            /\ r_detach' = Detach(payload.script, payload.debug)
            /\ sys_path' = sys_path
       ELSE \* line 281
            /\ r_exc' = "none"
            /\ r_pc' = "attach"
            /\ r_detach' = Detach(payload.script, payload.debug)
            /\ sys_path' = append(sys_path, payload.pydevd_path)
    /\ UNCHANGED <<channel_vars, discovery_vars, error_q>>

\* lines 283-294: if debug, append the attach directory, import
\* attach_script and attach; a failure is logged with logger.fatal; the
\* attach directory is removed again
RunScript_attach(outcome) ==
    /\ r_pc = "attach"
    /\ IF r_args.debug = 0
       THEN /\ r_pc' = "script"
            /\ UNCHANGED <<r_exc, sys_path, r_steps, error_q>>
       ELSE IF r_args.pydevd_path = "<number>"
       THEN \* os.path.join at line 284 raises TypeError outside the inner try
            /\ r_exc' = "TypeError"
            /\ r_pc' = "detach"
            /\ UNCHANGED <<sys_path, r_steps, error_q>>
       ELSE /\ sys_path' = del_last(append(sys_path, "pydevd/pydevd_attach_to_process"))
            /\ r_steps' = Append(r_steps, "attach")
            /\ error_q' = IF outcome = "ok" /\ r_args.debug_port # None
                           THEN error_q
                           ELSE log(error_q, FATAL, "attach")
            /\ r_pc' = "script"
            /\ r_exc' = r_exc
    /\ UNCHANGED <<channel_vars, discovery_vars, r_args, r_detach, r_items, sys_path_before>>

\* lines 296-311: if script_path, append the script's directory, import,
\* reload and run the module; an exception the except clause catches is
\* logged with logger.fatal, any other propagates; the directory is
\* removed again
RunScript_script(outcome) ==
    /\ r_pc = "script"
    /\ IF ~Truthy(r_args.script)
       THEN UNCHANGED <<r_exc, sys_path, r_steps, error_q>>
       ELSE /\ sys_path' = del_last(append(sys_path, "dir"))
            /\ r_steps' = Append(r_steps, "execute")
            /\ IF outcome = "ok"
               THEN UNCHANGED <<r_exc, error_q>>
               ELSE IF Caught(outcome)
               THEN /\ error_q' = log(error_q, FATAL, "script")
                    /\ r_exc' = r_exc
               ELSE /\ r_exc' = outcome
                    /\ error_q' = error_q
    /\ r_pc' = "detach"
    /\ UNCHANGED <<channel_vars, discovery_vars, r_args, r_detach, r_items, sys_path_before>>

\* lines 312-319: if detach, pydevd.stoptrace(); a failure is logged with
\* logger.error
RunScript_detach(outcome) ==
    /\ r_pc = "detach"
    /\ IF r_detach
       THEN /\ r_steps' = Append(r_steps, "detach")
            /\ error_q' = IF outcome = "ok" THEN error_q
                           ELSE log(error_q, ERROR, "detach")
       ELSE UNCHANGED <<r_steps, error_q>>
    /\ r_pc' = IF r_exc # "none" /\ Caught(r_exc) THEN "except" ELSE "finally"
    /\ UNCHANGED <<channel_vars, discovery_vars, r_args, r_detach, r_exc, sys_path, r_items, sys_path_before>>

\* lines 320-321: logger.fatal
RunScript_except ==
    /\ r_pc = "except"
    /\ error_q' = log(error_q, FATAL, "run")
    /\ r_exc' = "none"
    /\ r_pc' = "finally"
    /\ UNCHANGED <<channel_vars, discovery_vars, r_args, r_detach, sys_path, r_steps, r_items, sys_path_before>>

\* lines 322-323: del sys.path[-1], then the handler returns, or the
\* exception that was not caught leaves it; on an empty list the del
\* itself raises IndexError
RunScript_finally ==
    /\ r_pc = "finally"
    /\ IF sys_path = <<>>
       THEN /\ r_exc' = "IndexError"
            /\ r_pc' = "raised"
            /\ sys_path' = sys_path
       ELSE /\ sys_path' = del_last(sys_path)
            /\ r_exc' = r_exc
            /\ r_pc' = IF r_exc = "none" THEN "returned" ELSE "raised"
    /\ UNCHANGED <<channel_vars, discovery_vars, error_q, r_args, r_detach, r_steps, r_items, sys_path_before>>

RunNext ==
    \/ \E payload \in Payloads : RunScript_begin(payload)
    \/ \E outcome \in CallOutcomes : RunScript_attach(outcome)
    \/ \E outcome \in ScriptOutcomes : RunScript_script(outcome)
    \/ \E outcome \in CallOutcomes : RunScript_detach(outcome)
    \/ RunScript_except
    \/ RunScript_finally

RunSpec == Init /\ [][RunNext]_vars

(***************************************************************************)
(* The ssdp responder: SSDPRequestHandler.handle, computed on the lines of *)
(* the datagram.                                                           *)
(***************************************************************************)

RECURSIVE lstrip(_)
\* bytes.strip, front: the empty lines a datagram starts with are whitespace
lstrip(data) ==
    IF data # <<>> /\ Head(data).kind = "blank" THEN lstrip(Tail(data)) ELSE data

RECURSIVE rstrip(_)
\* bytes.strip, back: the empty lines a datagram ends with are whitespace
rstrip(data) ==
    IF data # <<>> /\ data[Len(data)].kind = "blank"
    THEN rstrip(SubSeq(data, 1, Len(data) - 1))
    ELSE data

\* line 433: self.request[0].strip()
strip(data) == rstrip(lstrip(data))

\* line 439: data.split(b"\r\n", 1) gives two parts only when a separator is
\* left in data, and the unpacking raises ValueError otherwise
split_raises(data) == Len(data) < 2

\* line 439: request_line, the part before the first separator
request_line(data) == Head(data)

\* line 439: headers_text, the part after the first separator
headers_text(data) == Tail(data)

RECURSIVE parse_headers(_)
\* line 440: http.client.parse_headers reads header lines up to the first
\* line that is empty or is no header
parse_headers(text) ==
    IF text # <<>> /\ Head(text).kind = "header"
    THEN <<Head(text)>> \o parse_headers(Tail(text))
    ELSE <<>>

RECURSIVE header(_, _)
\* lines 447-448: headers[name] is the value of the first header of that
\* name, and None when there is none
header(headers, name) ==
    IF headers = <<>> THEN "<None>"
    ELSE IF Head(headers).name = name THEN Head(headers).value
    ELSE header(Tail(headers), name)

\* lines 446-448: the condition under which handle replies
IsDiscover(data) ==
    /\ request_line(data) = MSearch
    /\ header(parse_headers(headers_text(data)), "MAN") = "\"ssdp:discover\""
    /\ header(parse_headers(headers_text(data)), "ST") = "fusion_idea:debug"

\* the response answers with the port of the ssdp socket
response_with_own_port(server, client_address) ==
    [to |-> client_address, status |-> "HTTP/1.1 200 OK",
     ST |-> "fusion_idea:debug", USN |-> getpid, Location |-> SSDP_PORT]

\* lines 449-457: the response and the address sendto is given
response(server, client_address) ==
    [to |-> client_address, status |-> "HTTP/1.1 200 OK",
     ST |-> "fusion_idea:debug", USN |-> getpid, Location |-> server.port]

\* handle_error raises again, and serve_forever ends with it
handle_error_raises(server) == [server EXCEPT !.loop = "done"]

\* lines 477-478: SSDPServer.handle_error logs the exception sendto raised
\* (at ERROR, below the level of the dialog handler) and returns, so that
\* serve_forever goes on to the next datagram
handle_error(server) == server

\* lines 441-444: the parse error is caught in handle, logged at ERROR, and
\* handle returns
parse_error(server) == server

\* lines 430-459: serve_forever receives the datagram of client_address and
\* calls handle; sent tells whether sendto succeeds
SSDP_handle(client_address, sent) ==
    /\ t_ssdp = "serving"
    /\ ssdp_srv.loop = "serving"
    /\ LET data == strip(d_query) IN
         IF split_raises(data)
         THEN /\ d_outcome' = "parse_error"
              /\ d_replies' = <<>>
              /\ ssdp_srv' = parse_error(ssdp_srv)
         ELSE IF IsDiscover(data)
         THEN IF sent
              THEN /\ d_outcome' = "replied"
                   /\ d_replies' = <<response(ssdp_srv, client_address)>>
                   /\ ssdp_srv' = ssdp_srv
              ELSE /\ d_outcome' = "send_failed"
                   /\ d_replies' = <<>>
                   /\ ssdp_srv' = handle_error(ssdp_srv)
         ELSE /\ d_outcome' = "unexpected"
              /\ d_replies' = <<>>
              /\ ssdp_srv' = ssdp_srv
    /\ UNCHANGED <<a_http, a_ssdp, http_srv, t_http, t_ssdp, s_pc, d_query>>
    /\ UNCHANGED <<channel_vars, error_q, handler_vars>>

(***************************************************************************)
(* The two server threads and AddIn.stop.                                  *)
(***************************************************************************)

\* BaseServer.serve_forever entered: it loops unless shutdown was requested
\* before, in which case it returns at once and clears the request
serve_forever(server) ==
    IF server.shutdown_request
    THEN [server EXCEPT !.loop = "done", !.shutdown_request = FALSE]
    ELSE [server EXCEPT !.loop = "serving"]

\* BaseServer.shutdown, first half: set the request
shutdown(server) == [server EXCEPT !.shutdown_request = TRUE]

\* BaseServer.shutdown, second half: it waits until serve_forever has left
\* its loop
is_shut_down(server) == server.loop = "done"

\* server_close()
server_close(server) == [server EXCEPT !.closed = TRUE]

\* lines 169-172: run_http_server reads the field and enters serve_forever
run_http_server_serve ==
    /\ t_http = "start"
    /\ a_http = "server"
    /\ http_srv' = serve_forever(http_srv)
    /\ t_http' = "serving"
    /\ UNCHANGED <<a_http, a_ssdp, ssdp_srv, t_ssdp, s_pc, d_query, d_outcome, d_replies>>
    /\ UNCHANGED <<channel_vars, error_q, handler_vars>>

\* serve_forever of either server sees the request at its next poll, leaves
\* the loop and clears the request
serve_forever_returns(server) ==
    [server EXCEPT !.loop = "done", !.shutdown_request = FALSE]

\* line 172 returning, and the exit of the with block of line 171
run_http_server_exit ==
    /\ t_http = "serving"
    /\ \/ /\ http_srv.loop = "serving"
          /\ http_srv.shutdown_request
          /\ http_srv' = serve_forever_returns(http_srv)
          /\ t_http' = "serving"
       \/ /\ http_srv.loop = "done"
          /\ http_srv' = server_close(http_srv)
          /\ t_http' = "exited"
    /\ UNCHANGED <<a_http, a_ssdp, ssdp_srv, t_ssdp, s_pc, d_query, d_outcome, d_replies>>
    /\ UNCHANGED <<channel_vars, error_q, handler_vars>>

\* line 179: SSDPServer(self._http_server.server_port); when stop has set
\* the field to None already the attribute access raises, lines 182-183
\* catch it and the thread ends without a server
run_ssdp_server_construct ==
    /\ t_ssdp = "start"
    /\ IF a_http = "server"
       THEN /\ ssdp_srv' = Server(http_srv.port)
            /\ t_ssdp' = "constructed"
       ELSE /\ ssdp_srv' = ssdp_srv
            /\ t_ssdp' = "exited"
    /\ UNCHANGED <<a_http, a_ssdp, http_srv, t_http, s_pc, d_query, d_outcome, d_replies>>
    /\ UNCHANGED <<channel_vars, error_q, handler_vars>>

\* line 180: self._ssdp_server = server
run_ssdp_server_assign ==
    /\ t_ssdp = "constructed"
    /\ a_ssdp' = "server"
    /\ t_ssdp' = "assigned"
    /\ UNCHANGED <<a_http, http_srv, ssdp_srv, t_http, s_pc, d_query, d_outcome, d_replies>>
    /\ UNCHANGED <<channel_vars, error_q, handler_vars>>

\* line 181: server.serve_forever()
run_ssdp_server_serve ==
    /\ t_ssdp = "assigned"
    /\ ssdp_srv' = serve_forever(ssdp_srv)
    /\ t_ssdp' = "serving"
    /\ UNCHANGED <<a_http, a_ssdp, http_srv, t_http, s_pc, d_query, d_outcome, d_replies>>
    /\ UNCHANGED <<channel_vars, error_q, handler_vars>>

\* line 181 returning, and the exit of the with block of line 179
run_ssdp_server_exit ==
    /\ t_ssdp = "serving"
    /\ \/ /\ ssdp_srv.loop = "serving"
          /\ ssdp_srv.shutdown_request
          /\ ssdp_srv' = serve_forever_returns(ssdp_srv)
          /\ t_ssdp' = "serving"
       \/ /\ ssdp_srv.loop = "done"
          /\ ssdp_srv' = server_close(ssdp_srv)
          /\ t_ssdp' = "exited"
    /\ UNCHANGED <<a_http, a_ssdp, http_srv, t_http, s_pc, d_query, d_outcome, d_replies>>
    /\ UNCHANGED <<channel_vars, error_q, handler_vars>>

\* lines 192-194: stop is called, finds the HTTPServer and requests its
\* shutdown
stop_http_shutdown ==
    /\ s_pc = "not_called"
    /\ IF a_http = "server"
       THEN /\ http_srv' = shutdown(http_srv)
            /\ s_pc' = "http_wait"
       ELSE /\ http_srv' = http_srv
            /\ s_pc' = "http_none"
    /\ UNCHANGED <<a_http, a_ssdp, ssdp_srv, t_http, t_ssdp, d_query, d_outcome, d_replies>>
    /\ UNCHANGED <<channel_vars, error_q, handler_vars>>

\* lines 194-195: shutdown returns once serve_forever has, and the socket
\* is closed
stop_http_close ==
    /\ s_pc = "http_wait"
    /\ is_shut_down(http_srv)
    /\ http_srv' = server_close(http_srv)
    /\ s_pc' = "http_none"
    /\ UNCHANGED <<a_http, a_ssdp, ssdp_srv, t_http, t_ssdp, d_query, d_outcome, d_replies>>
    /\ UNCHANGED <<channel_vars, error_q, handler_vars>>

\* line 198: self._http_server = None
stop_http_none ==
    /\ s_pc = "http_none"
    /\ a_http' = "None"
    /\ s_pc' = "ssdp_check"
    /\ UNCHANGED <<a_ssdp, http_srv, ssdp_srv, t_http, t_ssdp, d_query, d_outcome, d_replies>>
    /\ UNCHANGED <<channel_vars, error_q, handler_vars>>

\* lines 200-202: stop looks at the field the ssdp thread assigns, and
\* requests the shutdown of the SSDPServer when it finds one
stop_ssdp_shutdown ==
    /\ s_pc = "ssdp_check"
    /\ IF a_ssdp = "server"
       THEN /\ ssdp_srv' = shutdown(ssdp_srv)
            /\ s_pc' = "ssdp_wait"
       ELSE /\ ssdp_srv' = ssdp_srv
            /\ s_pc' = "ssdp_none"
    /\ UNCHANGED <<a_http, a_ssdp, http_srv, t_http, t_ssdp, d_query, d_outcome, d_replies>>
    /\ UNCHANGED <<channel_vars, error_q, handler_vars>>

\* lines 202-203: shutdown returns once serve_forever has, and the socket
\* is closed
stop_ssdp_close ==
    /\ s_pc = "ssdp_wait"
    /\ is_shut_down(ssdp_srv)
    /\ ssdp_srv' = server_close(ssdp_srv)
    /\ s_pc' = "ssdp_none"
    /\ UNCHANGED <<a_http, a_ssdp, http_srv, t_http, t_ssdp, d_query, d_outcome, d_replies>>
    /\ UNCHANGED <<channel_vars, error_q, handler_vars>>

\* line 206: self._ssdp_server = None; the listeners are not touched again
\* by the rest of stop
stop_ssdp_none ==
    /\ s_pc = "ssdp_none"
    /\ a_ssdp' = "None"
    /\ s_pc' = "returned"
    /\ UNCHANGED <<a_http, http_srv, ssdp_srv, t_http, t_ssdp, d_query, d_outcome, d_replies>>
    /\ UNCHANGED <<channel_vars, error_q, handler_vars>>

DiscoveryNext ==
    \/ \E client_address \in Clients, sent \in BOOLEAN :
           SSDP_handle(client_address, sent)
    \/ run_http_server_serve
    \/ run_http_server_exit
    \/ run_ssdp_server_construct
    \/ run_ssdp_server_assign
    \/ run_ssdp_server_serve
    \/ run_ssdp_server_exit
    \/ stop_http_shutdown
    \/ stop_http_close
    \/ stop_http_none
    \/ stop_ssdp_shutdown
    \/ stop_ssdp_close
    \/ stop_ssdp_none

DiscoverySpec == DiscoveryInit /\ [][DiscoveryNext]_vars

Next ==
    \/ \E body \in Envelopes \cup {MalformedBody} : do_POST_verify(body)
    \/ do_POST_lookup
    \/ do_POST_fire_verify
    \/ do_POST_check
    \/ do_POST_fire_run
    \/ VerifyRunScript_prompt
    \/ \E return_value \in TypedValues, cancelled \in BOOLEAN :
          VerifyRunScript_answer(return_value, cancelled)
    \/ VerifyRunScript_mismatch_closed
    \/ VerifyRunScript_fire
    \/ \E fatal \in BOOLEAN : RunScript_notify(fatal)
    \/ ErrorDialog_notify

Spec == Init /\ [][Next]_vars

(***************************************************************************)
(* Fairness.  The http thread keeps running once it has received a         *)
(* request; the main thread keeps delivering queued events when no handler *)
(* is running and keeps running a handler it has started; the operator     *)
(* eventually answers an open input box and closes an open message box.    *)
(* Nothing obliges a caller to send a request.                             *)
(***************************************************************************)
\* the steps of do_POST after a request was received (one position at a
\* time enables one of them)
do_POST_continues ==
    do_POST_lookup \/ do_POST_fire_verify \/ do_POST_check \/ do_POST_fire_run

\* the steps of a confirmation handler that has opened its prompt
VerifyRunScript_continues ==
    \/ \E return_value \in TypedValues, cancelled \in BOOLEAN :
          VerifyRunScript_answer(return_value, cancelled)
    \/ VerifyRunScript_mismatch_closed
    \/ VerifyRunScript_fire

Fairness ==
    /\ WF_vars(do_POST_continues)
    /\ WF_vars(VerifyRunScript_continues)
    /\ WF_vars(VerifyRunScript_prompt)
    /\ WF_vars(\E fatal \in BOOLEAN : RunScript_notify(fatal))
    /\ WF_vars(ErrorDialog_notify)

FairSpec == Spec /\ Fairness

(***************************************************************************)
(* Helpers for the properties.                                             *)
(***************************************************************************)
\* a step of the http thread / of the main thread out of a position that
\* every step of the thread leaves
HttpStep == h_pc' # h_pc
MainStep == m_pc' # m_pc

\* the envelope is authentic: its signature was made over its message with
\* the private half of the key its modulus and exponent denote
Authentic(env) ==
    /\ env \in Envelopes
    /\ env.signature.msg = env.message
    /\ env.signature.signer.n = int(env.pubkey_modulus)
    /\ env.signature.signer.e = int(env.pubkey_exponent)

\* a step of do_POST for a request it has received, and the step with which
\* do_POST returns
DoPostStep == h_pc' # h_pc \/ nreq' # nreq
DoPostReturns == DoPostStep /\ h_pc' = "idle"

\* the event is waiting in the queue
InQueue(q, event) == \E i \in 1..Len(q) : q[i] = event

\* the envelopes do_POST can fire an event for
AuthenticEnvelopes == {env \in Envelopes : SignatureValid(env)}

\* RunScriptEventHandler.notify has finished with the payload
Finished == r_pc \in {"returned", "raised"}

\* the payload asks for debugging / names a script
DebugRequested(a) == a.parses /\ a.debug \notin {None, 0}
ScriptRequested(a) == a.parses /\ Truthy(a.script)

\* the handler has performed the step for the payload
Performed(step) == \E i \in 1..Len(r_steps) : r_steps[i] = step

\* position of a step in the order attach, execute, detach
Rank(step) == CASE step = "attach" -> 1 [] step = "execute" -> 2 [] step = "detach" -> 3

\* the steps performed are in the order attach, execute, detach, each once
InOrder == \A i, j \in 1..Len(r_steps) : i < j => Rank(r_steps[i]) < Rank(r_steps[j])

\* q1 is q with zero or more events appended
Extends(q1, q) == Len(q1) >= Len(q) /\ SubSeq(q1, 1, Len(q)) = q

\* the typed values that are the digest of fingerprint f, in any case
DigestsOf == [f \in Fingerprints |->
                {v \in TypedValues : upper(v) = upper(expected_hash(f))}]

\* the typed value is the digest of the envelope's fingerprint, in any case
TypedDigest(return_value, env) == return_value \in DigestsOf[pubkey_string(env)]

\* the fingerprint has a TrustRecord, as get_trusted_key_nonce sees it
Trusted(f) == trusted_keys[f] # None

\* this step fires one more RUN_SCRIPT_EVENT, for request_json
FiresRun(request_json) == run_q' = Append(run_q, RunEvent(request_json))

(***************************************************************************)
(* C1: no RunCommand is ever enqueued, by do_POST or by the confirmation   *)
(* handler, for an envelope whose signature does not verify against the    *)
(* public key embedded in it; the command enqueued is that envelope's      *)
(* message.                                                                *)
(***************************************************************************)
C1_OnlyVerifiedDispatched ==
    \A i \in 1..Len(run_q) :
        /\ Authentic(run_q[i].env)
        /\ run_q[i].additionalInfo = run_q[i].env.message

\* a forged request has just been answered 500 while commands of verified
\* envelopes are queued
C1_Witness ==
    /\ h_resp = Failure("VerificationError")
    /\ Len(run_q) >= 2

(***************************************************************************)
(* C2: for a verified envelope whose fingerprint has no TrustRecord when   *)
(* do_POST looks it up, do_POST fires the verify event with the envelope,  *)
(* fires no run event and does not write the dictionary, whatever the      *)
(* message is.                                                             *)
(***************************************************************************)
C2_FirstContactGoesToConfirmation ==
    [][/\ (h_pc = "lookup" /\ HttpStep /\ ~Trusted(pubkey_string(h_req)))
            => /\ h_pc' = "fire_verify"
               /\ trusted_keys' = trusted_keys
               /\ run_q' = run_q
       /\ (h_pc = "fire_verify" /\ HttpStep)
            => /\ verify_q' = Append(verify_q, h_req)
               /\ h_pc' = "idle"
               /\ trusted_keys' = trusted_keys
               /\ run_q' = run_q]_vars

\* envelopes with an unusable message and with an integer nonce both wait
\* for confirmation, nothing was dispatched and nothing is trusted
C2_Witness ==
    /\ \E i \in 1..Len(verify_q) : verify_q[i].message.form = "invalid"
    /\ \E i \in 1..Len(verify_q) : verify_q[i].message.nonce = MaxNonce
    /\ run_q = <<>>
    /\ \A f \in Fingerprints : ~Trusted(f) /\ last_run[f] = None

(***************************************************************************)
(* C3: for a verified envelope whose fingerprint had the nonce h_nonce     *)
(* when do_POST looked it up, do_POST accepts exactly when the message's   *)
(* nonce is greater: then it writes that nonce once and fires the run      *)
(* event; otherwise it answers 500, fires nothing and writes nothing.      *)
(***************************************************************************)
C3_NonceCheck ==
    [][/\ (h_pc = "lookup" /\ HttpStep /\ Trusted(pubkey_string(h_req)))
            => /\ h_pc' = "check"
               /\ h_nonce' = trusted_keys[pubkey_string(h_req)]
               /\ trusted_keys' = trusted_keys
               /\ run_q' = run_q
       /\ (h_pc = "check" /\ HttpStep)
            => IF h_req.message.form = "int" /\ h_req.message.nonce > h_nonce
               THEN /\ h_pc' = "fire_run"
                    /\ trusted_keys' = [trusted_keys EXCEPT ![pubkey_string(h_req)]
                                                            = h_req.message.nonce]
                    /\ run_q' = run_q
               ELSE /\ h_pc' = "idle"
                    /\ h_resp'.status = 500
                    /\ trusted_keys' = trusted_keys
                    /\ run_q' = run_q
       /\ (h_pc = "fire_run" /\ HttpStep)
            => /\ FiresRun(h_req)
               /\ trusted_keys' = trusted_keys
               /\ h_resp' = Done
               /\ h_pc' = "idle"]_vars

\* a trusted key with lastNonce 0 sent nonce 1: accepted and written
C3_Witness ==
    /\ h_pc = "fire_run"
    /\ h_nonce = 0
    /\ h_req.message.nonce = 1
    /\ trusted_keys[pubkey_string(h_req)] = 1

(***************************************************************************)
(* C4: for every fingerprint the nonces of the run events fired for it,    *)
(* by do_POST and by the confirmation handler together, are strictly       *)
(* increasing: a run event fired for a fingerprint carries an integer      *)
(* nonce greater than that of the run event fired before it for the same   *)
(* fingerprint.                                                            *)
(***************************************************************************)
C4_DispatchedNoncesIncrease ==
    [][(Len(run_q') > Len(run_q))
          => \A env \in Envelopes :
                (FiresRun(env) /\ last_run[pubkey_string(env)] # None)
                   => /\ env.message.form = "int"
                      /\ env.message.nonce > last_run[pubkey_string(env)]]_vars

(***************************************************************************)
(* C5: once a fingerprint has a TrustRecord it keeps one, and its          *)
(* lastNonce never decreases.                                              *)
(***************************************************************************)
C5_RecordKeptNonceMonotone ==
    [][\A f \in Fingerprints :
          Trusted(f) => /\ trusted_keys'[f] # None
                        /\ trusted_keys'[f] >= trusted_keys[f]]_vars

(***************************************************************************)
(* C6: the confirmation handler writes the dictionary only for a           *)
(* fingerprint that has no TrustRecord at that moment, and an existing     *)
(* record is changed only by do_POST's accept path.                        *)
(***************************************************************************)
C6_ConfirmationOnlyCreates ==
    [][/\ (m_pc = "prompt" /\ m_pc' = "fire_run")
            => ~Trusted(pubkey_string(m_req))
       /\ \A f \in Fingerprints :
            (Trusted(f) /\ trusted_keys'[f] # trusted_keys[f])
               => (h_pc = "check" /\ h_pc' = "fire_run")]_vars

(***************************************************************************)
(* C7: between do_POST's read of a fingerprint's nonce (line 401) and its  *)
(* write of the new nonce (line 416), no write by the main thread to that  *)
(* fingerprint takes effect.                                               *)
(***************************************************************************)
C7_ReadCompareWriteAtomic ==
    [][(h_pc = "check" /\ h_pc' = "check")
          => trusted_keys'[pubkey_string(h_req)] = trusted_keys[pubkey_string(h_req)]]_vars

(***************************************************************************)
(* C8: a request goes on to the dictionary lookup only if its envelope is  *)
(* authentic; any other request is answered 500 in the same step, with no  *)
(* read (h_nonce stays unset) and no write of the dictionary and nothing   *)
(* fired, whatever fingerprint and nonce it carries.                       *)
(***************************************************************************)
C8_RejectedBeforeNonceCheck ==
    [][(h_pc = "idle" /\ nreq' # nreq)
          => \/ /\ h_pc' = "lookup"
                /\ Authentic(h_req')
             \/ /\ h_pc' = "idle"
                /\ h_resp'.status = 500
                /\ h_nonce' = None
                /\ UNCHANGED <<trusted_keys, run_q, verify_q, error_q, last_run>>]_vars

\* a request was rejected for its signature while a fingerprint is trusted
\* with a nonce below MaxNonce: the envelope of that fingerprint with nonce
\* MaxNonce and a forged signature is among the requests that end here
C8_Witness ==
    /\ h_pc = "idle"
    /\ h_resp = Failure("VerificationError")
    /\ \E f \in Fingerprints : Trusted(f) /\ trusted_keys[f] < MaxNonce

(***************************************************************************)
(* C9: when the operator cancels the prompt, or types a value that is not  *)
(* the digest, the confirmation handler leaves the dictionary unchanged    *)
(* and returns without firing a run event: a step out of the prompt either *)
(* changes neither the dictionary nor a queue and ends in the handler's    *)
(* return or the mismatch box, or it is not the step of a cancelled or     *)
(* mismatched answer.                                                      *)
(***************************************************************************)
C9_CancelOrMismatchChangesNothing ==
    [][(m_pc = "prompt" /\ MainStep)
          => \/ /\ trusted_keys' = trusted_keys
                /\ run_q' = run_q
                /\ error_q' = error_q
                /\ m_pc' \in {"idle", "mismatch_box"}
             \/ ~ \E return_value \in TypedValues, cancelled \in BOOLEAN :
                    /\ cancelled \/ ~TypedDigest(return_value, m_req)
                    /\ VerifyRunScript_answer(return_value, cancelled)]_vars

\* the only request so far was routed to confirmation and the operator
\* typed a wrong value: the mismatch box is open, nothing trusted or fired
C9_Witness ==
    /\ nreq = 1
    /\ m_pc = "mismatch_box"
    /\ run_q = <<>>
    /\ \A f \in Fingerprints : ~Trusted(f)

(***************************************************************************)
(* C10 as stated: whenever the operator types the digest (in any case)     *)
(* and does not cancel, the confirmation handler writes the envelope's     *)
(* nonce for its fingerprint and goes on to fire the run event.            *)
(***************************************************************************)
C10_Original_MatchAlwaysTrusts ==
    [][(/\ m_pc = "prompt"
        /\ MainStep
        /\ \E return_value \in TypedValues :
              /\ TypedDigest(return_value, m_req)
              /\ VerifyRunScript_answer(return_value, FALSE))
          => /\ trusted_keys' = [trusted_keys EXCEPT ![pubkey_string(m_req)]
                                                      = m_req.message.nonce]
             /\ m_pc' = "fire_run"]_vars

(***************************************************************************)
(* C10 amended: when the operator types the digest (in any case) and does  *)
(* not cancel, and json.loads(message)["nonce"] does not raise, the        *)
(* confirmation handler first writes that nonce for the fingerprint,       *)
(* firing nothing, and in its next step fires exactly one run event        *)
(* carrying the envelope's message, writing nothing; when it raises, the   *)
(* handler writes nothing, fires no run event and fires the error dialog   *)
(* event.                                                                  *)
(***************************************************************************)
C10_MatchTrustsThenDispatches ==
    [][/\ (m_pc = "prompt" /\ MainStep)
            => \/ IF m_req.message.form # "invalid"
                  THEN /\ trusted_keys' = [trusted_keys EXCEPT
                                             ![pubkey_string(m_req)] = m_req.message.nonce]
                       /\ run_q' = run_q
                       /\ m_pc' = "fire_run"
                       /\ m_req' = m_req
                  ELSE /\ trusted_keys' = trusted_keys
                       /\ run_q' = run_q
                       /\ error_q' = Append(error_q, "verify")
                       /\ m_pc' = "idle"
               \/ ~ \E return_value \in TypedValues :
                      /\ TypedDigest(return_value, m_req)
                      /\ VerifyRunScript_answer(return_value, FALSE)
       /\ (m_pc = "fire_run" /\ MainStep)
            => /\ FiresRun(m_req)
               /\ trusted_keys' = trusted_keys
               /\ m_pc' = "idle"]_vars

\* scenario 1: the first request, nonce 1, was confirmed: TrustRecord (K, 1)
\* is written and the run event is about to be fired
C10_Witness ==
    /\ nreq = 1
    /\ m_pc = "fire_run"
    /\ m_req.message.form = "int"
    /\ m_req.message.nonce = 1
    /\ trusted_keys[pubkey_string(m_req)] = 1
    /\ run_q = <<>>

(***************************************************************************)
(* C11: on first contact do_POST has sent the complete 200 response before *)
(* it fires the verify event: the response is already there in the step    *)
(* that fires the event, that step does not change it, and no step of the  *)
(* main thread (the prompt, the operator's answer, the command) ever       *)
(* changes a response.                                                     *)
(***************************************************************************)
C11_RespondsBeforeEnqueue ==
    [][/\ (h_pc = "lookup" /\ HttpStep /\ ~Trusted(pubkey_string(h_req)))
            => /\ h_resp' = Done
               /\ verify_q' = verify_q
       /\ (h_pc = "fire_verify" /\ HttpStep)
            => /\ h_resp = Done
               /\ h_resp' = h_resp
               /\ verify_q' = Append(verify_q, h_req)
       /\ ~DoPostStep => h_resp' = h_resp]_vars

\* the caller of the only request has its 200 response; the envelope is not
\* queued yet and the main thread has not seen it
C11_Witness ==
    /\ nreq = 1
    /\ h_pc = "fire_verify"
    /\ h_resp = Done
    /\ verify_q = <<>>
    /\ m_pc = "idle"

C13_Original_VerifiedEnqueuesOnce ==
    (/\ h_pc = "idle"
     /\ nreq > 0
     /\ h_resp.error \notin {"MalformedRequest", "VerificationError"})
       => h_enq = 1

(***************************************************************************)
(* C13 amended: do_POST fires at most one event per request; when it has   *)
(* returned from a request that passed signature verification it has fired *)
(* exactly one if it answered 200 and none if the nonce check rejected the *)
(* request (500); the event is the verify event when the lookup found no   *)
(* record and the run event otherwise.                                     *)
(***************************************************************************)
C13_VerifiedEnqueuesOnceUnlessRejected ==
    [][/\ h_enq' \in {0, 1}
       /\ (DoPostReturns /\ h_pc # "idle")
            => /\ h_enq' = IF h_resp'.status = 200 THEN 1 ELSE 0
               /\ h_resp'.status = 500 => h_pc = "check"
       /\ (DoPostStep /\ h_enq' = h_enq + 1)
            => IF h_nonce = None
               THEN /\ verify_q' = Append(verify_q, h_req)
                    /\ run_q' = run_q
               ELSE /\ FiresRun(h_req)
                    /\ verify_q' = verify_q]_vars

\* three verified requests: one went to confirmation, one was dispatched,
\* and the last was rejected by the nonce check with nothing fired
C13_Witness ==
    /\ nreq = 3
    /\ h_pc = "idle"
    /\ h_resp = Failure("ValueError: Invalid nonce")
    /\ h_enq = 0
    /\ \E f \in Fingerprints : last_run[f] = 1 /\ trusted_keys[f] = 1

(***************************************************************************)
(* C14: while a handler of the main thread is running (the prompt or the   *)
(* mismatch box is open, or the confirmation handler is about to fire),    *)
(* no event is taken from any of the three queues: events fired meanwhile  *)
(* only queue up behind those already waiting.                             *)
(***************************************************************************)
C14_OneItemAtATime ==
    [][m_pc # "idle"
          => /\ Extends(run_q', run_q)
             /\ Extends(verify_q', verify_q)
             /\ Extends(error_q', error_q)]_vars

\* the prompt is open while a run event and a verify event are waiting
C14_Witness ==
    /\ m_pc = "prompt"
    /\ run_q # <<>>
    /\ verify_q # <<>>

(***************************************************************************)
(* C16: under Fairness every event fired is eventually taken by the main   *)
(* thread: a verify event waiting in its queue leads to the prompt being   *)
(* open for its envelope, an open prompt leads to the handler having       *)
(* returned (after dropping the envelope or firing its run event), and a   *)
(* run event or error dialog event waiting in its queue leads to its       *)
(* having been taken from the queue.                                       *)
(***************************************************************************)
C16_EveryItemExecuted ==
    /\ \A env \in AuthenticEnvelopes :
          /\ InQueue(verify_q, env) ~> (m_pc = "prompt" /\ m_req = env)
          /\ InQueue(run_q, RunEvent(env)) ~> ~InQueue(run_q, RunEvent(env))
    /\ (m_pc = "prompt") ~> (m_pc = "idle")
    /\ (error_q # <<>>) ~> (error_q = <<>>)

\* a first-contact envelope and an error dialog event wait while the
\* prompt is open for another envelope
C16_Witness ==
    /\ m_pc = "prompt"
    /\ verify_q # <<>>
    /\ error_q # <<>>

(***************************************************************************)
(* C15: no exception leaves RunScriptEventHandler.notify: whatever the     *)
(* payload, the debugger and the script do, the handler returns; and the   *)
(* failure it catches at line 320 is logged with logger.fatal, which fires *)
(* the error dialog event.                                                 *)
(***************************************************************************)
C15_FailuresCaught ==
    [][/\ r_pc' # "raised"
       /\ (r_pc = "except" /\ r_pc' # r_pc)
            => error_q' = Append(error_q, "run")]_vars

(***************************************************************************)
(* C20 as stated: the handler performs attach (only if debugging is        *)
(* requested), then execute (only if a script path is given), then detach, *)
(* each at most once and in that order; when it has finished, detach was   *)
(* performed if and only if both a script path and debugging were          *)
(* requested, and nothing was performed if neither was.                    *)
(***************************************************************************)
C20_Original_StepsInOrder ==
    /\ InOrder
    /\ Performed("attach") => DebugRequested(r_args)
    /\ Performed("execute") => ScriptRequested(r_args)
    /\ Finished
         => /\ Performed("detach")
                 <=> (ScriptRequested(r_args) /\ DebugRequested(r_args))
            /\ (~ScriptRequested(r_args) /\ ~DebugRequested(r_args))
                 => r_steps = <<>>

(***************************************************************************)
(* C20 amended: as stated, except that detach is performed if and only if  *)
(* both a script path and debugging were requested and the payload also    *)
(* carries pydevd_path: a payload without it fails at line 273, before any *)
(* step, and performs none of the three.                                   *)
(***************************************************************************)
C20_StepsInOrder ==
    /\ InOrder
    /\ Performed("attach") => DebugRequested(r_args)
    /\ Performed("execute") => ScriptRequested(r_args)
    /\ Finished
         => /\ Performed("detach")
                 <=> /\ ScriptRequested(r_args)
                     /\ DebugRequested(r_args)
                     /\ r_args.pydevd_path # "<absent>"
            /\ (~ScriptRequested(r_args) /\ ~DebugRequested(r_args))
                 => r_steps = <<>>
            /\ r_args.pydevd_path = "<absent>" => r_steps = <<>>

\* a payload with a script and debugging was handled and nothing failed:
\* all three steps were performed
C20_Witness ==
    /\ r_pc = "returned"
    /\ r_args.debug_port = 7
    /\ r_steps = <<"attach", "execute", "detach">>
    /\ error_q = <<>>

\* the step in which RunScriptEventHandler.notify is left, by return or by
\* an exception
NotifyLeft == r_pc \notin {"returned", "raised"} /\ r_pc' \in {"returned", "raised"}

\* C21: when the handler is left, on any of its exit paths, sys.path is what
\* it was when the run event was delivered; and a step of the handler
\* shortens sys.path only while it is longer than it was then, so that the
\* entry removed is one the handler appended
C21_SysPathRestored ==
    [][/\ NotifyLeft => sys_path' = sys_path_before
       /\ Len(sys_path') < Len(sys_path) => Len(sys_path) > Len(sys_path_before)]_vars

(***************************************************************************)
(* The ssdp responder and the life cycle of the two servers, under         *)
(* DiscoverySpec.                                                          *)
(***************************************************************************)

\* the header lines of datagram that follow line i without a gap reach line j
InHeaderBlock(datagram, i, j) ==
    \A k \in (i + 1)..j : datagram[k].kind = "header"

\* line j is the header of that name in the header block that follows the
\* request line i: no header of the name precedes it
IsHeaderOf(datagram, i, j, name) ==
    /\ InHeaderBlock(datagram, i, j)
    /\ datagram[j].name = name
    /\ \A k \in (i + 1)..(j - 1) : datagram[k].name # name

\* the datagram is a discovery query: after leading empty lines its request
\* line is the M-SEARCH line, its MAN header is the discover directive and
\* its ST header is the search target of this add-in
WellFormedQuery(datagram) ==
    \E i \in 1..Len(datagram) :
        /\ \A k \in 1..(i - 1) : datagram[k] = BlankLine
        /\ datagram[i] = MSearch
        /\ \E j \in (i + 1)..Len(datagram) :
               /\ IsHeaderOf(datagram, i, j, "MAN")
               /\ datagram[j].value = "\"ssdp:discover\""
        /\ \E j \in (i + 1)..Len(datagram) :
               /\ IsHeaderOf(datagram, i, j, "ST")
               /\ datagram[j].value = "fusion_idea:debug"

\* a step in which SSDPRequestHandler.handle has handled a datagram
SSDPHandled == d_outcome' # d_outcome \/ d_replies' # d_replies

\* C17: handling a datagram sends a reply exactly when the datagram is a
\* discovery query (expected request line, MAN directive and ST target):
\* then it is one reply, addressed to the sender, with this process's pid
\* and the port the HTTPServer is bound to (a sendto that fails sends
\* nothing); every other datagram gets no reply
C17_RepliesIffDiscover ==
    [][\A client_address \in Clients, sent \in BOOLEAN :
           SSDP_handle(client_address, sent)
               => IF WellFormedQuery(d_query)
                  THEN IF sent
                       THEN /\ Len(d_replies') = 1
                            /\ d_replies'[1].to = client_address
                            /\ d_replies'[1].USN = getpid
                            /\ d_replies'[1].Location = http_srv.port
                            /\ d_outcome' = "replied"
                       ELSE /\ d_replies' = <<>>
                            /\ d_outcome' = "send_failed"
                  ELSE /\ d_replies' = <<>>
                       /\ d_outcome' \in {"parse_error", "unexpected"}]_vars

\* C17 witness: a discovery query has been answered with one reply that
\* carries the second of the ports
C17_Witness ==
    /\ d_outcome = "replied"
    /\ Len(d_replies) = 1
    /\ d_replies[1].Location = 49153
    /\ WellFormedQuery(d_query)

\* C18: a datagram that is handled leaves the SSDPServer as it was, inside
\* serve_forever, and one that fails to parse or whose reply fails to send
\* gets no reply; serve_forever ends only on a shutdown request, and only
\* stop makes that request
C18_StaysListening ==
    [][/\ SSDPHandled
            => /\ ssdp_srv' = ssdp_srv
               /\ ssdp_srv'.loop = "serving"
               /\ t_ssdp' = "serving"
               /\ d_outcome' \in {"parse_error", "send_failed"} => d_replies' = <<>>
       /\ (ssdp_srv.loop = "serving" /\ ssdp_srv'.loop # "serving")
            => /\ ssdp_srv.shutdown_request
               /\ ssdp_srv'.loop = "done"
       /\ (~ssdp_srv.shutdown_request /\ ssdp_srv'.shutdown_request)
            => /\ s_pc = "ssdp_check"
               /\ s_pc' = "ssdp_wait"]_vars

\* C18 witness: the reply to a discovery query failed to send, and the
\* server is still inside serve_forever with no shutdown requested
C18_Witness ==
    /\ d_outcome = "send_failed"
    /\ d_replies = <<>>
    /\ ssdp_srv.loop = "serving"
    /\ ~ssdp_srv.shutdown_request
    /\ s_pc = "not_called"

\* a server that was made has left serve_forever, will not enter it again
\* and has its socket closed
Stopped(server, thread) ==
    /\ server.loop = "done"
    /\ server.closed
    /\ thread \in {"serving", "exited"}

\* C19: once stop has returned, the HTTPServer is stopped and closed, and
\* so is the SSDPServer if one was made; none is made afterwards
C19_BothListenersStopped ==
    s_pc = "returned"
        => /\ Stopped(http_srv, t_http)
           /\ \/ Stopped(ssdp_srv, t_ssdp)
              \/ ssdp_srv = NoServer /\ t_ssdp = "exited"
              \/ ssdp_srv = NoServer /\ t_ssdp = "start" /\ a_http = "None"

====
